---- MODULE Spec2Model ----
(***************************************************************************)
(* StorageManager (src/src/StorageManager.ts): the client-side facade over *)
(* the storage REST service.  The model keeps the facade's only field (the *)
(* fetcher), a log of the calls made on the facade with the way each one   *)
(* was delivered to its caller, the requests handed to fetcher.post, and   *)
(* the BucketManager objects constructed.                                  *)
(***************************************************************************)
EXTENDS Integers, Sequences, FiniteSets

\* Number of facade calls one behaviour makes.
MaxCalls == 2

(***************************************************************************)
(* JavaScript values.  A value is a record of its type tag and a printable *)
(* payload; null has the tag "null" and typeof "object".                   *)
(***************************************************************************)
Undefined == [t |-> "undefined", v |-> ""]
Null      == [t |-> "null", v |-> ""]
Str(s)    == [t |-> "string", v |-> s]
Num(n)    == [t |-> "number", v |-> n]
Bool(b)   == [t |-> "boolean", v |-> b]
Obj(o)    == [t |-> "object", v |-> o]

\* typeof v
TypeOf(x) == IF x.t = "null" THEN "object" ELSE x.t

\* ToBoolean(v), the test `if (v)` applies
Truthy(x) ==
    CASE x.t = "undefined" -> FALSE
      [] x.t = "null"      -> FALSE
      [] x.t = "string"    -> x.v # ""
      [] x.t = "number"    -> x.v # "0"
      [] x.t = "boolean"   -> x.v = "true"
      [] OTHER             -> TRUE

\* Arguments the callers pass.
NameVals == {Undefined, Str(""), Str("root"), Str("logs")}
PublicVals == {Undefined, Bool("false")}
ExprVals == {Undefined, Str(""), Str("a"), Num("0"), Num("42"), Obj("o1")}
SearchVals == {Undefined, Str(""), Str("a"), Num("42")}
OptVals == {Undefined, Str(""), Num("42"), Obj("o2")}

\* Transports a facade can be constructed with.
Fetchers == {"fetcherA", "fetcherB"}

\* Envelopes the transport replies with; NoEnvelope marks "no value yet".
Envelopes == {[data |-> "d1", errors |-> "null"], [data |-> "null", errors |-> "e1"]}
NoEnvelope == [data |-> "-", errors |-> "-"]
NoHandle == [id |-> Undefined, fetcher |-> "-"]

VARIABLES fetcher, calls, requests, handles

vars == <<fetcher, calls, requests, handles>>

(***************************************************************************)
(* What running a method body up to its return, throw or await does.       *)
(***************************************************************************)
Throw(code) == [threw |-> TRUE, error |-> code, posts |-> <<>>, handle |-> NoHandle]
Post(path, body) ==
    [threw |-> FALSE, error |-> "", posts |-> <<[path |-> path, body |-> body]>>,
     handle |-> NoHandle]
Return(h) == [threw |-> FALSE, error |-> "", posts |-> <<>>, handle |-> h]

\* checkRequired(fieldName, fieldValue): TRUE when it throws
checkRequired(fieldValue) ==
    fieldValue.t \in {"undefined", "null"} \/ fieldValue = Str("")

\* new BucketManager(nameOrId, this.fetcher)
BucketManager(nameOrId, f) == [id |-> nameOrId, fetcher |-> f]

bucketBody(nameOrId) ==
    IF checkRequired(nameOrId) THEN Throw("InvalidArgument")
    ELSE Return(BucketManager(nameOrId, fetcher))

\* root hands out the identifier of the handle made last.
rootBody_LastHandle ==
    Return(BucketManager(IF handles = <<>> THEN Str("root") ELSE handles[Len(handles)].id,
                         fetcher))

rootBody == Return(BucketManager(Str("root"), fetcher))

\* The request is posted a second time.
createBucketBody_Retry(name, isPublicArg) ==
    LET isPublic == IF isPublicArg = Undefined THEN Bool("true") ELSE isPublicArg
        req == [path |-> "/_api/rest/v1/storage/create-bucket",
                body |-> [name |-> name, isPublic |-> isPublic]]
    IN IF checkRequired(name) THEN Throw("InvalidArgument")
       ELSE [threw |-> FALSE, error |-> "", posts |-> <<req, req>>, handle |-> NoHandle]

\* isPublic defaults to false.
createBucketBody_DefaultPrivate(name, isPublicArg) ==
    LET isPublic == IF isPublicArg = Undefined THEN Bool("false") ELSE isPublicArg
    IN IF checkRequired(name) THEN Throw("InvalidArgument")
       ELSE Post("/_api/rest/v1/storage/create-bucket",
                 [name |-> name, isPublic |-> isPublic])

createBucketBody(name, isPublicArg) ==
    LET isPublic == IF isPublicArg = Undefined THEN Bool("true") ELSE isPublicArg
    IN IF checkRequired(name) THEN Throw("InvalidArgument")
       ELSE Post("/_api/rest/v1/storage/create-bucket",
                 [name |-> name, isPublic |-> isPublic])

\* The body posts first and validates afterwards.
listBucketsBody_PostFirst(expression, options) ==
    LET body == [expression |-> Null, options |-> Null]
        bad == \/ Truthy(expression) /\ TypeOf(expression) \notin {"string", "object"}
               \/ Truthy(options) /\ TypeOf(options) # "object"
    IN [threw |-> bad, error |-> IF bad THEN "InvalidValue" ELSE "",
        posts |-> <<[path |-> "/_api/rest/v1/storage/list-buckets", body |-> body]>>,
        handle |-> NoHandle]

\* expVal and optionsVal are declared without their null initialiser.
listBucketsBody_NoNullDefault(expression, options) ==
    LET expVal == IF Truthy(expression) /\ TypeOf(expression) = "string"
                  THEN expression ELSE Undefined
        optionsVal0 == IF Truthy(expression) /\ TypeOf(expression) = "object"
                       THEN expression ELSE Undefined
        optionsVal == IF Truthy(options) /\ TypeOf(options) = "object"
                      THEN options ELSE optionsVal0
    IN IF Truthy(expression) /\ TypeOf(expression) \notin {"string", "object"}
       THEN Throw("InvalidValue")
       ELSE IF Truthy(options) /\ TypeOf(options) # "object"
       THEN Throw("InvalidValue")
       ELSE Post("/_api/rest/v1/storage/list-buckets",
                 [expression |-> expVal, options |-> optionsVal])

\* The first object argument wins over the second.
listBucketsBody_FirstWins(expression, options) ==
    LET expVal == IF Truthy(expression) /\ TypeOf(expression) = "string"
                  THEN expression ELSE Null
        optionsVal0 == IF Truthy(options) /\ TypeOf(options) = "object"
                       THEN options ELSE Null
        optionsVal == IF Truthy(expression) /\ TypeOf(expression) = "object"
                      THEN expression ELSE optionsVal0
    IN IF Truthy(expression) /\ TypeOf(expression) \notin {"string", "object"}
       THEN Throw("InvalidValue")
       ELSE IF Truthy(options) /\ TypeOf(options) # "object"
       THEN Throw("InvalidValue")
       ELSE Post("/_api/rest/v1/storage/list-buckets",
                 [expression |-> expVal, options |-> optionsVal])

listBucketsBody(expression, options) ==
    LET \* if (expression) { string -> expVal; object -> optionsVal; else throw }
        expThrows == /\ Truthy(expression)
                     /\ TypeOf(expression) # "string"
                     /\ TypeOf(expression) # "object"
        expVal == IF Truthy(expression) /\ TypeOf(expression) = "string"
                  THEN expression ELSE Null
        optionsVal0 == IF /\ Truthy(expression)
                          /\ TypeOf(expression) # "string"
                          /\ TypeOf(expression) = "object"
                       THEN expression ELSE Null
        \* if (options) { object -> optionsVal; else throw }
        optThrows == Truthy(options) /\ TypeOf(options) # "object"
        optionsVal == IF Truthy(options) /\ TypeOf(options) = "object"
                      THEN options ELSE optionsVal0
    IN IF expThrows THEN Throw("InvalidValue")
       ELSE IF optThrows THEN Throw("InvalidValue")
       ELSE Post("/_api/rest/v1/storage/list-buckets",
                 [expression |-> expVal, options |-> optionsVal])

getStatsBody == Post("/_api/rest/v1/storage/stats", Undefined)

searchFilesBody(expression, options) ==
    LET optionsVal == IF Truthy(options) THEN options ELSE Null
    IN IF checkRequired(expression) THEN Throw("InvalidArgument")
       ELSE IF Truthy(options) /\ TypeOf(options) # "object"
       THEN Throw("InvalidValue")
       ELSE Post("/_api/rest/v1/storage/search-files",
                 [expression |-> expression, options |-> optionsVal])

(***************************************************************************)
(* Delivery of a body's outcome to the caller.  A plain method returns or  *)
(* throws at the call; an async method always returns a promise, which is  *)
(* already rejected when the body threw and pending while it awaits.       *)
(***************************************************************************)
SyncDelivery(out) == IF out.threw THEN "threw" ELSE "returned"
\* The method is not async: its throw reaches the caller at the call.
AsyncDelivery_NotAsync(out) == IF out.threw THEN "threw" ELSE "pending"

AsyncDelivery(out) == IF out.threw THEN "rejected" ELSE "pending"

Invoke(op, args, out, delivery) ==
    /\ Len(calls) < MaxCalls
    /\ LET id == Len(calls) + 1 IN
       /\ calls' = Append(calls, [op |-> op, args |-> args, delivery |-> delivery,
                                  error |-> out.error, handle |-> out.handle,
                                  result |-> NoEnvelope])
       /\ requests' = requests \o
             [k \in 1..Len(out.posts) |->
                [call |-> id, fetcher |-> fetcher, path |-> out.posts[k].path,
                 body |-> out.posts[k].body, reply |-> NoEnvelope]]
       /\ handles' = IF out.handle = NoHandle THEN handles
                     ELSE Append(handles, out.handle)
    /\ UNCHANGED fetcher

bucket ==
    \E nameOrId \in NameVals :
        Invoke("bucket", <<nameOrId>>, bucketBody(nameOrId),
               SyncDelivery(bucketBody(nameOrId)))

root == Invoke("root", <<>>, rootBody, SyncDelivery(rootBody))

createBucket ==
    \E name \in NameVals, isPublic \in PublicVals :
        Invoke("createBucket", <<name, isPublic>>, createBucketBody(name, isPublic),
               AsyncDelivery(createBucketBody(name, isPublic)))

listBuckets ==
    \E expression \in ExprVals, options \in OptVals :
        Invoke("listBuckets", <<expression, options>>,
               listBucketsBody(expression, options),
               AsyncDelivery(listBucketsBody(expression, options)))

getStats == Invoke("getStats", <<>>, getStatsBody, AsyncDelivery(getStatsBody))

searchFiles ==
    \E expression \in SearchVals, options \in OptVals :
        Invoke("searchFiles", <<expression, options>>,
               searchFilesBody(expression, options),
               AsyncDelivery(searchFilesBody(expression, options)))

\* A reply that reports errors is thrown instead of returned.
AwaitReturn_ThrowOnErrors(envelope) ==
    IF envelope.errors # "null" THEN [delivery |-> "rejected", result |-> NoEnvelope]
    ELSE [delivery |-> "fulfilled", result |-> envelope]

\* `return await p`: how the method's promise settles once p has the envelope
AwaitReturn(envelope) == [delivery |-> "fulfilled", result |-> envelope]

\* The transport settles request r with an envelope and the awaiting method
\* resumes and returns.
FetcherReply ==
    \E r \in 1..Len(requests), envelope \in Envelopes :
        /\ requests[r].reply = NoEnvelope
        /\ requests' = [requests EXCEPT ![r].reply = envelope]
        /\ calls' = [calls EXCEPT
                       ![requests[r].call].delivery = AwaitReturn(envelope).delivery,
                       ![requests[r].call].result = AwaitReturn(envelope).result]
        /\ UNCHANGED <<fetcher, handles>>

Init ==
    /\ fetcher \in Fetchers
    /\ calls = <<>>
    /\ requests = <<>>
    /\ handles = <<>>

Next ==
    \/ bucket
    \/ root
    \/ createBucket
    \/ listBuckets
    \/ getStats
    \/ searchFiles
    \/ FetcherReply

Spec == Init /\ [][Next]_vars

(***************************************************************************)
(* Properties.                                                             *)
(***************************************************************************)
CallIds == 1..Len(calls)
PostsOf(i) == {r \in 1..Len(requests) : requests[r].call = i}
LocalErrors == {"InvalidArgument", "InvalidValue"}
AsyncOps == {"createBucket", "listBuckets", "getStats", "searchFiles"}
Provided(x) == x # Undefined
\* absent or empty: what a required parameter must not be
Missing(x) == x = Undefined \/ x = Null \/ x = Str("")

PathOf(op) ==
    CASE op = "createBucket" -> "/_api/rest/v1/storage/create-bucket"
      [] op = "listBuckets"  -> "/_api/rest/v1/storage/list-buckets"
      [] op = "getStats"     -> "/_api/rest/v1/storage/stats"
      [] op = "searchFiles"  -> "/_api/rest/v1/storage/search-files"
      [] OTHER               -> "-"

\* C1: a createBucket, listBuckets or searchFiles call that ended in a local
\* InvalidArgument/InvalidValue error has issued no transport post request.
C1_NoPostOnLocalError ==
    \A i \in CallIds :
        (calls[i].op \in {"createBucket", "listBuckets", "searchFiles"}
            /\ calls[i].error \in LocalErrors)
        => PostsOf(i) = {}

\* A listBuckets call failed locally while another call's request is out.
C1_Witness ==
    \E i, j \in CallIds :
        /\ calls[i].op = "listBuckets" /\ calls[i].error = "InvalidValue"
        /\ calls[j].op = "searchFiles" /\ calls[j].error = "InvalidArgument"
        /\ PostsOf(i) = {} /\ PostsOf(j) = {}

\* C2: a createBucket, listBuckets, getStats or searchFiles call that passed
\* local validation has issued exactly one post, to its operation's fixed path,
\* whether or not the reply has arrived; bucket and root calls have issued none.
C2_ExactlyOnePost ==
    \A i \in CallIds :
        /\ (calls[i].op \in AsyncOps /\ calls[i].error = "")
            => /\ Cardinality(PostsOf(i)) = 1
               /\ \A r \in PostsOf(i) : requests[r].path = PathOf(calls[i].op)
        /\ calls[i].op \in {"bucket", "root"} => PostsOf(i) = {}

\* A replied getStats call and a bucket call side by side.
C2_Witness ==
    \E i, j \in CallIds :
        /\ calls[i].op = "getStats" /\ calls[i].delivery = "fulfilled"
        /\ Cardinality(PostsOf(i)) = 1
        /\ calls[j].op = "bucket" /\ calls[j].delivery = "returned"

\* C3: once the transport has replied to a request, the call that posted it is
\* fulfilled (never rejected) with exactly the envelope of the reply, also when
\* the envelope reports a remote failure.
C3_EnvelopePassThrough ==
    \A r \in 1..Len(requests) :
        requests[r].reply # NoEnvelope
        => /\ calls[requests[r].call].delivery = "fulfilled"
           /\ calls[requests[r].call].result = requests[r].reply

\* A remote failure has been delivered as the result of a call.
C3_Witness ==
    \E r \in 1..Len(requests) :
        /\ requests[r].reply = [data |-> "null", errors |-> "e1"]
        /\ calls[requests[r].call].result = [data |-> "null", errors |-> "e1"]

\* C4: listBuckets fails with InvalidValue for every provided first argument
\* that is neither a string nor an object and for every provided second
\* argument that is not an object, falsy values included.
C4_ListBucketsRejectsWrongTypes ==
    \A i \in CallIds :
        (calls[i].op = "listBuckets"
            /\ \/ Provided(calls[i].args[1])
                    /\ TypeOf(calls[i].args[1]) \notin {"string", "object"}
               \/ Provided(calls[i].args[2]) /\ TypeOf(calls[i].args[2]) # "object")
        => calls[i].error = "InvalidValue"

C6_LocalErrorThrownAtCall ==
    \A i \in CallIds :
        IF calls[i].error \in LocalErrors
        THEN calls[i].delivery = "threw"
        ELSE calls[i].delivery \in {"returned", "pending", "fulfilled"}

\* C6 amended: a local validation failure of the async methods createBucket,
\* listBuckets and searchFiles is delivered as the rejection of the promise the
\* call returns, with no request posted and no envelope; only bucket throws at
\* the call; every call that passed validation returned its handle or is
\* pending and then fulfilled with an envelope.
C6_LocalErrorRejectsPromise ==
    \A i \in CallIds :
        IF calls[i].error \in LocalErrors
        THEN /\ calls[i].op \in AsyncOps => calls[i].delivery = "rejected"
             /\ calls[i].op = "bucket" => calls[i].delivery = "threw"
             /\ calls[i].op # "root"
             /\ PostsOf(i) = {}
             /\ calls[i].result = NoEnvelope
        ELSE /\ calls[i].error = ""
             /\ calls[i].op \in {"bucket", "root"} => calls[i].delivery = "returned"
             /\ calls[i].op \in AsyncOps =>
                   \/ calls[i].delivery = "pending" /\ calls[i].result = NoEnvelope
                   \/ calls[i].delivery = "fulfilled" /\ calls[i].result \in Envelopes

\* A rejected createBucket, a thrown bucket call.
C6_Witness ==
    \E i, j \in CallIds :
        /\ calls[i].op = "createBucket" /\ calls[i].delivery = "rejected"
        /\ calls[i].error = "InvalidArgument"
        /\ calls[j].op = "bucket" /\ calls[j].delivery = "threw"

\* C7: searchFiles fails with InvalidArgument when expression is missing, with
\* InvalidValue when options is provided and is not an object (falsy values
\* included), and otherwise sends {expression, options} with expression as
\* passed and options the given object, or null when options is absent.
C7_SearchFiles ==
    \A i \in CallIds :
        calls[i].op = "searchFiles"
        => IF Missing(calls[i].args[1])
           THEN calls[i].error = "InvalidArgument"
           ELSE IF Provided(calls[i].args[2]) /\ TypeOf(calls[i].args[2]) # "object"
           THEN calls[i].error = "InvalidValue"
           ELSE /\ calls[i].error = ""
                /\ \A r \in PostsOf(i) :
                     requests[r].body =
                        [expression |-> calls[i].args[1],
                         options |-> IF Provided(calls[i].args[2])
                                     THEN calls[i].args[2] ELSE Null]

\* C8: createBucket fails with InvalidArgument when name is empty or absent;
\* for every other name, "root" included, it raises no local error and sends one
\* request with body {name, isPublic}, name as passed and isPublic the passed
\* value or true when omitted; a remote error is only in the envelope returned.
C8_CreateBucket ==
    \A i \in CallIds :
        calls[i].op = "createBucket"
        => IF Missing(calls[i].args[1])
           THEN calls[i].error = "InvalidArgument" /\ PostsOf(i) = {}
           ELSE /\ calls[i].error = ""
                /\ calls[i].delivery \in {"pending", "fulfilled"}
                /\ PostsOf(i) # {}
                /\ \A r \in PostsOf(i) :
                     /\ requests[r].body =
                           [name |-> calls[i].args[1],
                            isPublic |-> IF calls[i].args[2] = Undefined
                                         THEN Bool("true") ELSE calls[i].args[2]]
                     /\ requests[r].reply # NoEnvelope
                           => calls[i].result = requests[r].reply

\* createBucket("root") with isPublic omitted came back with the service's error.
C8_Witness ==
    \E i \in CallIds :
        /\ calls[i].op = "createBucket"
        /\ calls[i].args = <<Str("root"), Undefined>>
        /\ calls[i].result = [data |-> "null", errors |-> "e1"]

\* C9: whatever calls came before, a root call returned a handle bound to
\* "root" and the facade's transport, the binding bucket("root") gives; a bucket
\* call threw InvalidArgument for an empty or undefined nameOrId and otherwise
\* returned a handle bound to nameOrId and the facade's transport; each of these
\* calls constructed its own handle; the transport reference every handle and
\* request carries is the facade's, and two calls with the same operation and
\* arguments ended the same way and sent the same request.
C9_HandlesAndStatelessness ==
    /\ \A i \in CallIds :
        /\ calls[i].op = "root"
            => /\ calls[i].delivery = "returned"
               /\ calls[i].handle = [id |-> Str("root"), fetcher |-> fetcher]
               /\ calls[i].handle = bucketBody(Str("root")).handle
        /\ calls[i].op = "bucket"
            => IF Missing(calls[i].args[1])
               THEN /\ calls[i].delivery = "threw"
                    /\ calls[i].error = "InvalidArgument"
                    /\ calls[i].handle = NoHandle
               ELSE /\ calls[i].delivery = "returned"
                    /\ calls[i].handle = [id |-> calls[i].args[1], fetcher |-> fetcher]
    /\ Len(handles) = Cardinality({i \in CallIds : calls[i].delivery = "returned"})
    /\ \A h \in 1..Len(handles) : handles[h].fetcher = fetcher
    /\ \A r \in 1..Len(requests) : requests[r].fetcher = fetcher
    /\ \A i, j \in CallIds :
        (calls[i].op = calls[j].op /\ calls[i].args = calls[j].args)
        => /\ calls[i].error = calls[j].error
           /\ calls[i].handle = calls[j].handle
           /\ \A r \in PostsOf(i), q \in PostsOf(j) :
                requests[r].path = requests[q].path /\ requests[r].body = requests[q].body

\* root was read after a bucket("logs") call and a failed bucket call exists.
C9_Witness ==
    \E i, j \in CallIds :
        /\ i < j
        /\ calls[i].op = "bucket" /\ calls[i].args = <<Str("logs")>>
        /\ calls[j].op = "root" /\ calls[j].handle.id = Str("root")
        /\ Len(handles) = 2

====
